---- MODULE Spec2Model ----
(***************************************************************************)
(* Model of the bank-data-processor pipeline (src/src/data_processor.py,   *)
(* src/src/validation.py, src/src/utils.py).                               *)
(*                                                                         *)
(* Text is a sequence of one-character strings, so that strip, upper,      *)
(* slicing and the character-class tests are computed and not assumed.     *)
(* A cell of a table is a tagged value: Null (NaN / pd.NA / None),         *)
(* Num(n) with n in hundredths of a unit, or Str(text).  A row is a        *)
(* function from column names to cells; a DataFrame is a sequence of       *)
(* [origin, cells] records, where origin = <<file, position>> records the  *)
(* source file and the position of the row in the parser's output (it is   *)
(* never read by the modelled code).                                       *)
(***************************************************************************)
EXTENDS Integers, Sequences, FiniteSets, TLC

\* ------------------------------------------------------------------------
\* Bounds of the model
\* ------------------------------------------------------------------------
MaxRows == 3
MaxRuns == 3

\* ------------------------------------------------------------------------
\* Characters and Python string methods
\* ------------------------------------------------------------------------
UpperChars == <<"A","B","C","D","E","F","G","H","I","J","K","L","M",
                "N","O","P","Q","R","S","T","U","V","W","X","Y","Z">>
LowerChars == <<"a","b","c","d","e","f","g","h","i","j","k","l","m",
                "n","o","p","q","r","s","t","u","v","w","x","y","z">>
DigitChars == <<"0","1","2","3","4","5","6","7","8","9">>
Whitespace == {" ", "\t", "\n", "\r"}

\* the classes [A-Z] and [a-z]
IsUpperCh(c) == \E i \in 1..26 : UpperChars[i] = c
IsLowerCh(c) == \E i \in 1..26 : LowerChars[i] = c
IsDigitCh(c) == \E i \in 1..10 : DigitChars[i] = c
\* a letter outside ASCII: str.isalpha() and str.isalnum() accept it, the
\* class [A-Z] of a regular expression does not
AccentedUpper == "É"
AccentedLower == "é"
IsAlphaCh(c) == IsUpperCh(c) \/ IsLowerCh(c) \/ c \in {AccentedUpper, AccentedLower}
IsAlnumCh(c) == IsAlphaCh(c) \/ IsDigitCh(c)

\* str.upper(), str.lower()
upper(s) ==
    LET ToUpperCh(c) ==
            IF IsLowerCh(c) THEN UpperChars[CHOOSE i \in 1..26 : LowerChars[i] = c]
            ELSE IF c = AccentedLower THEN AccentedUpper ELSE c
    IN  [i \in 1..Len(s) |-> ToUpperCh(s[i])]
lower(s) ==
    LET ToLowerCh(c) ==
            IF IsUpperCh(c) THEN LowerChars[CHOOSE i \in 1..26 : UpperChars[i] = c]
            ELSE IF c = AccentedUpper THEN AccentedLower ELSE c
    IN  [i \in 1..Len(s) |-> ToLowerCh(s[i])]

\* str.isalpha(), str.isdigit(), str.isalnum(): false on the empty string
isalpha(s) == Len(s) > 0 /\ \A i \in 1..Len(s) : IsAlphaCh(s[i])
isdigit(s) == Len(s) > 0 /\ \A i \in 1..Len(s) : IsDigitCh(s[i])
isalnum(s) == Len(s) > 0 /\ \A i \in 1..Len(s) : IsAlnumCh(s[i])

\* s[a:b] with Python's 0-based, end-exclusive, clamped indices (0 <= a)
Slice(s, a, b) ==
    LET hi == IF b < Len(s) THEN b ELSE Len(s)
    IN  IF a >= hi THEN <<>> ELSE SubSeq(s, a + 1, hi)
\* s[a:]
SliceFrom(s, a) == Slice(s, a, Len(s))

\* s.replace(" ", "")
RemoveSpaces(s) == SelectSeq(s, LAMBDA c : c # " ")

\* s.replace(",", ".")
CommaToDot(s) == [i \in 1..Len(s) |-> IF s[i] = "," THEN "." ELSE s[i]]

RECURSIVE lstrip(_)
lstrip(s) == IF s # <<>> /\ Head(s) \in Whitespace THEN lstrip(Tail(s)) ELSE s
RECURSIVE rstrip(_)
rstrip(s) ==
    IF s # <<>> /\ s[Len(s)] \in Whitespace THEN rstrip(SubSeq(s, 1, Len(s) - 1)) ELSE s
\* str.strip()
strip(s) == rstrip(lstrip(s))

\* ------------------------------------------------------------------------
\* Cells
\* ------------------------------------------------------------------------
Null == [t |-> "null"]
Num(n) == [t |-> "num", v |-> n]
Str(s) == [t |-> "str", v |-> s]

\* pd.isna / pd.notna
pd_isna(x) == x.t = "null"
pd_notna(x) == ~pd_isna(x)

RECURSIVE NatToChars(_)
NatToChars(n) ==
    IF n < 10 THEN <<DigitChars[n + 1]>>
    ELSE NatToChars(n \div 10) \o <<DigitChars[(n % 10) + 1]>>

\* repr of a float64 whose value is h hundredths: "5.0", "2.5", "0.25", "-3.0"
FormatNum(h) ==
    LET a == IF h < 0 THEN 0 - h ELSE h
        ip == a \div 100
        fr == a % 100
        frac == IF fr % 10 = 0 THEN <<DigitChars[(fr \div 10) + 1]>>
                ELSE <<DigitChars[(fr \div 10) + 1], DigitChars[(fr % 10) + 1]>>
    IN  (IF h < 0 THEN <<"-">> ELSE <<>>) \o NatToChars(ip) \o <<".">> \o frac

\* str(x) of a cell: text as is, NaN as "nan", a float by its repr
py_str(x) ==
    IF x.t = "str" THEN x.v
    ELSE IF x.t = "null" THEN <<"n","a","n">>
    ELSE FormatNum(x.v)

\* ------------------------------------------------------------------------
\* src/validation.py
\* ------------------------------------------------------------------------
validate_bic_skip_branch(bic_in) ==
    LET bic == upper(RemoveSpaces(py_str(bic_in)))
    IN  /\ Len(bic) \in {8, 11}
        /\ isalpha(Slice(bic, 0, 4))
        /\ isalpha(Slice(bic, 4, 6))
        /\ isalnum(Slice(bic, 6, 8))
\* validate_bic: first component of the returned pair
validate_bic(bic_in) ==
    LET bic == upper(RemoveSpaces(py_str(bic_in)))
    IN  IF Len(bic) \notin {8, 11} THEN FALSE
        ELSE IF ~isalpha(Slice(bic, 0, 4)) THEN FALSE
        ELSE IF ~isalpha(Slice(bic, 4, 6)) THEN FALSE
        ELSE IF ~isalnum(Slice(bic, 6, 8)) THEN FALSE
        ELSE IF Len(bic) = 11 /\ ~isalnum(SliceFrom(bic, 8)) THEN FALSE
        ELSE TRUE

\* the table country_lengths of validate_iban
country_lengths ==
    [c \in {<<"F","R">>, <<"D","E">>, <<"G","B">>, <<"C","I">>,
            <<"S","N">>, <<"J","P">>, <<"U","S">>} |->
        CASE c = <<"F","R">> -> 27
          [] c = <<"D","E">> -> 22
          [] c = <<"G","B">> -> 22
          [] c = <<"C","I">> -> 28
          [] c = <<"S","N">> -> 28
          [] c = <<"J","P">> -> 24
          [] c = <<"U","S">> -> 24]

validate_iban_any_length(iban_in) ==
    LET iban == upper(RemoveSpaces(py_str(iban_in)))
    IN  /\ Len(iban) >= 5
        /\ IsUpperCh(iban[1]) /\ IsUpperCh(iban[2])
        /\ isdigit(Slice(iban, 2, 4))
        /\ isalnum(SliceFrom(iban, 4))
\* validate_iban: first component of the returned pair
validate_iban(iban_in) ==
    LET iban == upper(RemoveSpaces(py_str(iban_in)))
        country == Slice(iban, 0, 2)
    IN  IF Len(iban) < 5 THEN FALSE
        ELSE IF ~(IsUpperCh(iban[1]) /\ IsUpperCh(iban[2])) THEN FALSE
        ELSE IF ~isdigit(Slice(iban, 2, 4)) THEN FALSE
        ELSE IF ~isalnum(SliceFrom(iban, 4)) THEN FALSE
        ELSE IF country \in DOMAIN country_lengths
                /\ Len(iban) # country_lengths[country] THEN FALSE
        ELSE TRUE

required_cols == {"Montant", "Devise", "IBAN_Emetteur", "IBAN_Beneficiaire", "BIC_SWIFT"}

\* rules.get("allowed_currencies", []) with each entry stripped and upper-cased
allowed_currencies(rules) ==
    LET raw == IF "allowed_currencies" \in DOMAIN rules
               THEN rules["allowed_currencies"] ELSE <<>>
    IN  [i \in 1..Len(raw) |-> upper(strip(raw[i]))]

InList(x, list) == \E i \in 1..Len(list) : list[i] = x

ExceedsMaxOrEqual(montant, rules) ==
    /\ "max_transaction_amount" \in DOMAIN rules
    /\ montant.v >= rules["max_transaction_amount"]
\* montant > rules.get("max_transaction_amount", float('inf')), montant a number
ExceedsMax(montant, rules) ==
    /\ "max_transaction_amount" \in DOMAIN rules
    /\ montant.v > rules["max_transaction_amount"]

\* validate_transaction: "True", "False", or "raise" when the comparison of a
\* text amount with the numeric maximum raises TypeError
validate_transaction(row, rules) ==
    IF ~(\A col \in required_cols : col \in DOMAIN row) THEN "False"
    ELSE IF \E col \in required_cols : pd_isna(row[col]) THEN "False"
    ELSE LET montant == row["Montant"]
             devise == upper(strip(py_str(row["Devise"])))
             allowed == allowed_currencies(rules)
         IN  IF montant.t = "str" THEN "raise"
             ELSE IF ExceedsMax(montant, rules) THEN "False"
             ELSE IF Len(allowed) > 0 /\ ~InList(devise, allowed) THEN "False"
             ELSE IF ~validate_iban(row["IBAN_Emetteur"]) THEN "False"
             ELSE IF ~validate_iban(row["IBAN_Beneficiaire"]) THEN "False"
             ELSE IF ~validate_bic(row["BIC_SWIFT"]) THEN "False"
             ELSE "True"

\* the DEBUG line validate_transaction prints before it returns (lines 117,
\* 122, 132, 138, 144, 149, 155, 158): it names the check that decided;
\* nothing is printed when the comparison of the amount raises
debug_message(row, rules) ==
    IF ~(\A col \in required_cols : col \in DOMAIN row) THEN "missing_columns"
    ELSE IF \E col \in required_cols : pd_isna(row[col]) THEN "null_values"
    ELSE LET montant == row["Montant"]
             devise == upper(strip(py_str(row["Devise"])))
             allowed == allowed_currencies(rules)
         IN  IF montant.t = "str" THEN "none"
             ELSE IF ExceedsMax(montant, rules) THEN "amount"
             ELSE IF Len(allowed) > 0 /\ ~InList(devise, allowed) THEN "currency"
             ELSE IF ~validate_iban(row["IBAN_Emetteur"]) THEN "iban_emetteur"
             ELSE IF ~validate_iban(row["IBAN_Beneficiaire"]) THEN "iban_beneficiaire"
             ELSE IF ~validate_bic(row["BIC_SWIFT"]) THEN "bic"
             ELSE "valid"

\* the reason carried by the value validate_transaction returns: the function
\* is declared -> bool and every return statement gives True or False alone
\* (lines 103, 118-159), so the value carries none
returned_reason(r) == "none"

\* ------------------------------------------------------------------------
\* src/utils.py
\* ------------------------------------------------------------------------
Stars(n) == [i \in 1..n |-> "*"]

mask_sensitive_data(data, characters_to_show) ==
    IF Len(data) = 0 THEN <<>>
    ELSE IF Len(data) <= characters_to_show THEN Stars(Len(data))
    ELSE Stars(Len(data) - characters_to_show)
         \o (IF characters_to_show = 0 THEN data
             ELSE SliceFrom(data, Len(data) - characters_to_show))

\* ------------------------------------------------------------------------
\* DataProcessor._validate_data
\* ------------------------------------------------------------------------
\* lines 302-305: a missing expected column is added, filled with pd.NA
AddExpectedCols(cells) ==
    [c \in (DOMAIN cells) \cup required_cols |->
        IF c \in DOMAIN cells THEN cells[c] ELSE Null]

\* lines 308-325: one boolean per row; a row whose validation raises gets False
validity_results_raise_true(df, rules) ==
    [i \in 1..Len(df) |->
        validate_transaction(AddExpectedCols(df[i].cells), rules) # "False"]
validity_results(df, rules) ==
    [i \in 1..Len(df) |->
        validate_transaction(AddExpectedCols(df[i].cells), rules) = "True"]

RECURSIVE SelectRows(_, _, _)
\* df[mask]: the rows of df whose flag equals want, in order
SelectRows(df, flags, want) ==
    IF df = <<>> THEN <<>>
    ELSE (IF Head(flags) = want THEN <<Head(df)>> ELSE <<>>)
         \o SelectRows(Tail(df), Tail(flags), want)

sensitive_cols == {"IBAN_Emetteur", "IBAN_Beneficiaire"}

\* lines 338-343: the two IBAN columns are masked in an output frame
MaskFrame(df) ==
    [i \in 1..Len(df) |->
        [origin |-> df[i].origin,
         cells |-> [c \in DOMAIN df[i].cells |->
                      IF c \in sensitive_cols
                      THEN Str(mask_sensitive_data(py_str(df[i].cells[c]), 4))
                      ELSE df[i].cells[c]]]]

_validate_data_mask_first(df, rules) ==
    IF df = <<>> THEN [valid |-> <<>>, invalid |-> <<>>]
    ELSE LET full == MaskFrame([i \in 1..Len(df) |->
                        [origin |-> df[i].origin, cells |-> AddExpectedCols(df[i].cells)]])
             flags == validity_results(full, rules)
         IN  [valid |-> SelectRows(full, flags, TRUE),
              invalid |-> SelectRows(full, flags, FALSE)]
_validate_data(df, rules) ==
    IF df = <<>> THEN [valid |-> <<>>, invalid |-> <<>>]
    ELSE LET full == [i \in 1..Len(df) |->
                        [origin |-> df[i].origin, cells |-> AddExpectedCols(df[i].cells)]]
             flags == validity_results(df, rules)
         IN  [valid |-> MaskFrame(SelectRows(full, flags, TRUE)),
              invalid |-> MaskFrame(SelectRows(full, flags, FALSE))]

\* ------------------------------------------------------------------------
\* DataProcessor._clean_data
\* ------------------------------------------------------------------------
DigitVal(c) == (CHOOSE i \in 1..10 : DigitChars[i] = c) - 1

RECURSIVE CharsToNat(_)
CharsToNat(s) ==
    IF s = <<>> THEN 0
    ELSE CharsToNat(SubSeq(s, 1, Len(s) - 1)) * 10 + DigitVal(s[Len(s)])

\* pd.to_numeric(text, errors='coerce') on stripped text: an optional sign,
\* digits and at most one decimal point give a number (in hundredths; the
\* model's amounts have at most two decimals), anything else gives NaN
to_numeric(s) ==
    LET signed == s # <<>> /\ Head(s) \in {"+", "-"}
        body == IF signed THEN Tail(s) ELSE s
        dots == {i \in 1..Len(body) : body[i] = "."}
        d == IF dots = {} THEN Len(body) + 1 ELSE CHOOSE i \in dots : TRUE
        intp == SubSeq(body, 1, d - 1)
        frac == SubSeq(body, d + 1, Len(body))
        wellformed == /\ Cardinality(dots) <= 1
                      /\ \A i \in 1..Len(body) : body[i] = "." \/ IsDigitCh(body[i])
                      /\ Len(intp) + Len(frac) > 0
        frac2 == Slice(frac \o <<"0","0">>, 0, 2)
        mag == CharsToNat(intp) * 100 + CharsToNat(frac2)
    IN  IF wellformed
        THEN Num(IF signed /\ Head(s) = "-" THEN 0 - mag ELSE mag)
        ELSE Null

RECURSIVE drop_duplicates(_)
\* DataFrame.drop_duplicates(): the first of the rows equal on every column stays
drop_duplicates(df) ==
    IF df = <<>> THEN <<>>
    ELSE LET init == drop_duplicates(SubSeq(df, 1, Len(df) - 1))
             last == df[Len(df)]
         IN  IF \E i \in 1..Len(init) : init[i].cells = last.cells
             THEN init ELSE Append(init, last)

\* df[col].dtype == 'object': the column holds text
IsObjectCol(df, col) == \E i \in 1..Len(df) : df[i].cells[col].t = "str"

_clean_data_dropna(raw) ==
    LET df1 == drop_duplicates(raw)
        stripped(i, c) ==
            IF IsObjectCol(df1, c) THEN Str(strip(py_str(df1[i].cells[c])))
            ELSE df1[i].cells[c]
        montant(i) == to_numeric(strip(CommaToDot(py_str(stripped(i, "Montant")))))
        all == [i \in 1..Len(df1) |->
                  [origin |-> df1[i].origin,
                   cells |-> [c \in DOMAIN df1[i].cells |->
                                IF c = "Montant" THEN montant(i) ELSE stripped(i, c)]]]
    IN  SelectSeq(all, LAMBDA r : r.cells["Montant"] # Null)
\* _clean_data.  Line 262 (column names) is the identity on the model's column
\* names, which are made of letters, digits and '_' only; the model's tables
\* have no Date column, so lines 274-275 are not entered.
_clean_data(raw) ==
    LET df1 == drop_duplicates(raw)
        stripped(i, c) ==
            IF IsObjectCol(df1, c) THEN Str(strip(py_str(df1[i].cells[c])))
            ELSE df1[i].cells[c]
        montant(i) == to_numeric(strip(CommaToDot(py_str(stripped(i, "Montant")))))
    IN  [i \in 1..Len(df1) |->
            [origin |-> df1[i].origin,
             cells |-> [c \in DOMAIN df1[i].cells |->
                          IF c = "Montant" THEN montant(i) ELSE stripped(i, c)]]]

\* ------------------------------------------------------------------------
\* src/categorization.py
\* ------------------------------------------------------------------------
CATEGORIES_PAR_DEFAUT == <<
    [label |-> "salaire", mots_cles |-> <<
          <<"s","a","l","a","i","r","e">>,
          <<"p","a","y","r","o","l","l">>,
          <<"r","e","m","u","n","e","r","a","t","i","o","n">>>>],
    [label |-> "loyer", mots_cles |-> <<
          <<"l","o","y","e","r">>,
          <<"r","e","n","t">>>>],
    [label |-> "alimentation", mots_cles |-> <<
          <<"s","u","p","e","r","m","a","r","c","h","e">>,
          <<"c","a","r","r","e","f","o","u","r">>,
          <<"a","u","c","h","a","n">>,
          <<"l","e","c","l","e","r","c">>,
          <<"a","l","i","m","e","n","t","a","t","i","o","n">>,
          <<"e","p","i","c","e","r","i","e">>,
          <<"b","o","u","l","a","n","g","e","r","i","e">>,
          <<"r","e","s","t","a","u","r","a","n","t">>,
          <<"m","c","d","o">>,
          <<"k","f","c">>,
          <<"b","u","r","g","e","r">>>>],
    [label |-> "transports", mots_cles |-> <<
          <<"s","n","c","f">>,
          <<"r","a","t","p">>,
          <<"u","b","e","r">>,
          <<"t","a","x","i">>,
          <<"e","s","s","e","n","c","e">>,
          <<"s","t","a","t","i","o","n">>,
          <<"c","a","r","b","u","r","a","n","t">>,
          <<"t","o","t","a","l">>,
          <<"a","u","t","o","r","o","u","t","e">>>>],
    [label |-> "sante", mots_cles |-> <<
          <<"p","h","a","r","m","a","c","i","e">>,
          <<"m","e","d","e","c","i","n">>,
          <<"h","o","p","i","t","a","l">>,
          <<"m","u","t","u","e","l","l","e">>,
          <<"d","o","c","t","o","l","i","b">>>>],
    [label |-> "divertissement", mots_cles |-> <<
          <<"c","i","n","e","m","a">>,
          <<"n","e","t","f","l","i","x">>,
          <<"s","p","o","t","i","f","y">>,
          <<"l","o","i","s","i","r">>,
          <<"c","o","n","c","e","r","t">>,
          <<"j","e","u","x">>>>],
    [label |-> "autre", mots_cles |-> <<>>]>>

\* re.search on text for the literal text pat
Contains(text, pat) ==
    \E i \in 1..(Len(text) - Len(pat) + 1) : SubSeq(text, i, i + Len(pat) - 1) = pat

\* rf"\\b{re.escape(mot)}\\b": in a raw string "\\b" is the two-character
\* regex for a literal backslash followed by the letter b, so the pattern
\* matches the text  \b<mot>\b  with literal backslashes (keywords are letters
\* only, on which re.escape is the identity)
KeywordPattern(mot) == <<"\\", "b">> \o mot \o <<"\\", "b">>

RECURSIVE FirstCategory(_, _)
FirstCategory(libelle, categories) ==
    IF categories = <<>> THEN "autre"
    ELSE IF \E k \in 1..Len(Head(categories).mots_cles) :
                Contains(libelle, KeywordPattern(Head(categories).mots_cles[k]))
         THEN Head(categories).label
         ELSE FirstCategory(libelle, Tail(categories))

\* categoriser_transaction(libelle, montant, categories): libelle is a cell.
\* "raise" stands for the AttributeError of .lower() on a value that is truthy
\* and not text (a non-zero number, NaN)
categoriser_transaction(libelle, montant, categories) ==
    IF libelle.t = "str"
    THEN IF libelle.v = <<>> THEN "autre"
         ELSE FirstCategory(lower(libelle.v),
                            IF categories = <<>> THEN CATEGORIES_PAR_DEFAUT
                            ELSE categories)
    ELSE IF libelle.t = "num" /\ libelle.v = 0 THEN "autre"
    ELSE "raise"

\* ------------------------------------------------------------------------
\* The recovery ledger: text of the processed-files log
\* ------------------------------------------------------------------------
RECURSIVE SplitLines(_)
\* iteration over the lines of a text file opened with universal newlines
SplitLines(text) ==
    IF text = <<>> THEN <<>>
    ELSE LET brk == {i \in 1..Len(text) : text[i] \in {"\n", "\r"}}
         IN  IF brk = {} THEN <<text>>
             ELSE LET k == CHOOSE i \in brk : \A j \in brk : i <= j
                  IN  <<SubSeq(text, 1, k - 1)>>
                      \o SplitLines(SubSeq(text, k + 1, Len(text)))

\* _load_processed_files, when the log can be read:
\* [line.strip() for line in f if line.strip()]
_load_processed_files(text) ==
    LET lines == SplitLines(text)
    IN  SelectSeq([i \in 1..Len(lines) |-> strip(lines[i])], LAMBDA l : l # <<>>)

\* ------------------------------------------------------------------------
\* Paths
\* ------------------------------------------------------------------------
\* index of the last "." of a file name that starts a suffix, 0 when none
\* (pathlib: a leading or a trailing dot starts no suffix)
SuffixDot(name) ==
    LET dots == {i \in 2..(Len(name) - 1) : name[i] = "."}
    IN  IF dots = {} THEN 0 ELSE CHOOSE i \in dots : \A j \in dots : j <= i

\* Path.suffix and Path.stem
Suffix(name) == IF SuffixDot(name) = 0 THEN <<>> ELSE SliceFrom(name, SuffixDot(name) - 1)
Stem(name) == IF SuffixDot(name) = 0 THEN name ELSE Slice(name, 0, SuffixDot(name) - 1)

SupportedSuffixes == {<<".","c","s","v">>, <<".","x","l","s","x">>, <<".","x","l","s">>, <<".","p","d","f">>}

\* ------------------------------------------------------------------------
\* src/fraud_detection.py
\* ------------------------------------------------------------------------
RECURSIVE Gcd(_, _)
Gcd(a, b) == IF b = 0 THEN a ELSE Gcd(b, a % b)

RECURSIVE SeqGcd(_)
SeqGcd(s) ==
    LET Abs(n) == IF n < 0 THEN 0 - n ELSE n
    IN  IF s = <<>> THEN 0 ELSE Gcd(Abs(Head(s)), SeqGcd(Tail(s)))

RECURSIVE SeqSum(_)
SeqSum(s) == IF s = <<>> THEN 0 ELSE Head(s) + SeqSum(Tail(s))

\* abs(zscore) > seuil for a row, the threshold given in tenths.  With n
\* non-null values of sum s, the z-score of v is dev / sqrt(spread) where
\* dev = n*v - s and spread = n * (sum of squares) - s*s, so the test is
\* dev^2 > seuil^2 * spread; a negative threshold is below every abs value
ExceedsThresholdInclusive(dev, spread, seuil_tenths) ==
    IF seuil_tenths < 0 THEN TRUE
    ELSE 100 * dev * dev >= seuil_tenths * seuil_tenths * spread
ExceedsThreshold(dev, spread, seuil_tenths) ==
    IF seuil_tenths < 0 THEN TRUE
    ELSE 100 * dev * dev > seuil_tenths * seuil_tenths * spread

\* float64: the sign of mean() - v over n copies of the amount v (in
\* hundredths), for n up to 12.  Whole amounts are summed and divided
\* exactly.  The running sum of n copies of 0.1 or of 0.2, divided by n, is
\* above the amount for n = 3 and below it for n in 6..12; that of 0.3 is
\* below it for n in 10..12; for the other n these three are exact.
MeanRoundingOfEqual(v, n) ==
    IF v \in {10, 20} /\ n = 3 THEN 1
    ELSE IF v \in {10, 20} /\ n \in 6..12 THEN 0 - 1
    ELSE IF v = 30 /\ n \in 10..12 THEN 0 - 1
    ELSE 0

\* the z-score is a number: with std = 0 the division 0/0 gives NaN, and a
\* comparison with NaN is False; equal values whose mean is rounded away
\* from them have a std of the size of that rounding error, not 0
ZScoreIsNumber(spread, err) == spread > 0 \/ err # 0

\* detect_anomalies(df, montant_col, seuil_zscore) on a column of numbers and
\* nulls: the rows whose abs(zscore) exceeds the threshold, the added column
\* dropped again.  mean() and std(ddof=0) skip nulls; a null value has a NaN
\* z-score.  The values are divided by their common divisor first, which
\* leaves every z-score as it is.  With equal values every deviation is the
\* rounding error of the mean and std is its absolute value.
detect_anomalies(df, montant_col, seuil_tenths) ==
    IF df = <<>> \/ montant_col \notin DOMAIN df[1].cells
       \/ (\A i \in 1..Len(df) : pd_isna(df[i].cells[montant_col]))
    THEN <<>>
    ELSE LET present == SelectSeq(df, LAMBDA r : pd_notna(r.cells[montant_col]))
             raw == [i \in 1..Len(present) |-> present[i].cells[montant_col].v]
             g == IF SeqGcd(raw) = 0 THEN 1 ELSE SeqGcd(raw)
             val == [i \in 1..Len(raw) |-> raw[i] \div g]
             n == Len(val)
             s == SeqSum(val)
             spread == n * SeqSum([i \in 1..n |-> val[i] * val[i]]) - s * s
             err == IF spread = 0 THEN MeanRoundingOfEqual(raw[1], n) ELSE 0
             suspect(r) ==
                 /\ pd_notna(r.cells[montant_col])
                 /\ ZScoreIsNumber(spread, err)
                 /\ IF spread > 0
                    THEN ExceedsThreshold(n * (r.cells[montant_col].v \div g) - s,
                                          spread, seuil_tenths)
                    ELSE ExceedsThreshold(0 - err, err * err, seuil_tenths)
         IN  SelectSeq(df, suspect)

\* ------------------------------------------------------------------------
\* The environment: input directories, file contents, configuration
\* ------------------------------------------------------------------------
F_A_CSV == <<"a",".","c","s","v">>
F_A_XLSX == <<"a",".","x","l","s","x">>
F_B_CSV == <<" ","b",".","C","S","V">>
F_N_XLS == <<"n",".","x","l","s">>
F_R_TXT == <<"r",".","t","x","t">>
F_D_CSV == <<"d",".","c","s","v">>
F_M_CSV == <<"m",".","c","s","v">>

AllNames == {F_A_CSV, F_A_XLSX, F_B_CSV, F_N_XLS, F_R_TXT, F_D_CSV, F_M_CSV}

Entry(n, isf) == [name |-> n, is_file |-> isf]

\* an ordinary file and one whose name starts with a blank, next to a file of
\* an unsupported type and a directory named like a CSV
DirMain == {Entry(F_A_CSV, TRUE), Entry(F_B_CSV, TRUE),
            Entry(F_R_TXT, TRUE), Entry(F_D_CSV, FALSE)}
IBAN_FR == <<"F","R","1","4","2","0","0","4","1","0","1","0","0","5","0","5","0","0","0","1","3","M","0","2","6","0","6">>
IBAN_FR_SPACED == <<"f","r","1","4"," ","2","0","0","4"," ","1","0","1","0"," ","0","5","0","5"," ","0","0","0","1"," ","3","m","0","2"," ","6","0","6">>
IBAN_XX == <<"X","X","1","2","A","B","C","D","E","F">>
IBAN_DIGITS == <<"1","2","A","B","C","D","E","F","G","H">>
IBAN_FR_SHORT == <<"F","R","1","4","2","0","0","4","1","0","1","0">>
BIC_8 == <<"B","N","P","A","F","R","P","P">>
BIC_11 == <<"B","N","P","A","F","R","P","P","X","X","X">>
BIC_7 == <<"B","N","P","A","F","R","P">>
T_EUR == <<"E","U","R">>
T_EUR_LOW == <<" ","e","u","r"," ">>
T_USD == <<"U","S","D">>
T_XOF == <<"X","O","F">>
T_JPY == <<"J","P","Y">>
T_LOYER == <<"L","o","y","e","r"," ","m","a","r","s">>
T_ABC == <<"a","b","c">>

Row(m, d, ie, ib, bic, desc) ==
    [c \in required_cols \cup {"Description"} |->
        CASE c = "Montant" -> m
          [] c = "Devise" -> d
          [] c = "IBAN_Emetteur" -> ie
          [] c = "IBAN_Beneficiaire" -> ib
          [] c = "BIC_SWIFT" -> bic
          [] c = "Description" -> desc]

BulkRows ==
    LET \* ten transfers of 1.00 that differ in their description, and one of 9.00
        \* whose description holds a keyword between literal \b marks
        BulkTags == <<"a","b","c","d","e","f","g","h","i","j">>
    IN  [i \in 1..11 |->
            IF i <= 10
            THEN Row(Str(<<"1">>), Str(T_EUR), Str(IBAN_FR), Str(IBAN_XX), Str(BIC_8),
                     Str(<<"v", BulkTags[i]>>))
            ELSE Row(Str(<<"9">>), Str(T_EUR), Str(IBAN_FR), Str(IBAN_XX), Str(BIC_8),
                     Str(<<"\\","b","l","o","y","e","r","\\","b">>))]

\* the cells the format adapter returns for each file when it can read it
FileCells(name) ==
    CASE name = F_A_CSV ->
           <<Row(Str(<<"5">>), Str(T_EUR), Str(IBAN_FR), Str(IBAN_XX), Str(BIC_8), Str(T_LOYER)),
             Row(Str(<<"5">>), Str(T_EUR), Str(IBAN_FR), Str(IBAN_XX), Str(BIC_8), Str(T_LOYER)),
             Row(Str(<<"1","5">>), Str(T_EUR), Str(IBAN_FR), Str(IBAN_XX), Str(BIC_8), Str(T_LOYER))>>
      [] name = F_A_XLSX ->
           <<Row(Str(<<"7">>), Str(T_JPY), Str(IBAN_FR), Str(IBAN_XX), Str(BIC_11), Str(T_LOYER)),
             Row(Str(<<" ","2",",","5">>), Str(T_EUR_LOW), Str(IBAN_FR_SPACED), Str(IBAN_XX), Str(BIC_11), Str(<<>>))>>
      [] name = F_B_CSV ->
           <<Row(Str(<<"1","0">>), Str(T_USD), Str(IBAN_XX), Str(IBAN_FR), Str(BIC_8), Str(T_LOYER)),
             Row(Str(T_ABC), Str(T_USD), Str(IBAN_XX), Str(IBAN_FR), Str(BIC_8), Str(T_LOYER))>>
      [] name = F_N_XLS ->
           <<Row(Num(300), Str(T_XOF), Str(IBAN_XX), Str(IBAN_FR), Str(BIC_8), Num(700))>>
      [] name = F_M_CSV -> BulkRows
      [] OTHER -> <<>>

\* the deployments explored: the input directory and whether it lies under
\* the project root (relative_to raises ValueError when it does not)
Deployments ==
    LET \* a file whose Description column is numeric, next to an ordinary one
        DirNum == {Entry(F_A_XLSX, TRUE), Entry(F_N_XLS, TRUE)}
        \* two files that share the stem "a", and a third file: more files
        \* than the pool has workers
        DirStem == {Entry(F_A_CSV, TRUE), Entry(F_A_XLSX, TRUE), Entry(F_N_XLS, TRUE)}
        \* one file of eleven valid rows, one amount far from the ten others
        DirBulk == {Entry(F_M_CSV, TRUE)}
    IN  {<<DirMain, TRUE>>, <<DirNum, TRUE>>, <<DirStem, FALSE>>, <<DirBulk, TRUE>>}

\* FormatAdapter.parse(path) when it succeeds
ParsedFrame(name) ==
    [i \in 1..Len(FileCells(name)) |->
        [origin |-> <<name, i>>, cells |-> FileCells(name)[i]]]

\* self.validation_rules of the processor (amounts in hundredths)
ProcessorRules ==
    [k \in {"max_transaction_amount", "allowed_currencies"} |->
        IF k = "max_transaction_amount" THEN 1000 ELSE <<T_XOF, T_EUR, T_USD>>]

\* processing.parallel_workers
parallel_workers == 2

\* The frames the pipeline can hold are finitely many; the results of the
\* pure stages on them are tabulated once.
CleanedFrames == [f \in AllNames |-> _clean_data(ParsedFrame(f))]
KnownFrames == {CleanedFrames[f] : f \in AllNames} \cup {<<>>}
ValidatedFrames == [df \in KnownFrames |-> _validate_data(df, ProcessorRules)]

\* ------------------------------------------------------------------------
\* State
\* ------------------------------------------------------------------------
VARIABLES
    input_dir,          \* the entries of config paths.input_dir (unchanged by the program)
    under_root,         \* whether input_dir lies under self.project_root
    processed_files,    \* self.processed_files
    ledgerFile,         \* text of the file at self.processed_files_log_path
    quarantine,         \* quarantine_dir: sink name -> frame written by to_csv
    pc,                 \* position of the main thread: "idle", "loop", "report"
    files_to_process,   \* run_pipeline: files_to_process
    fut,                \* state of the future of each file
    result,             \* value returned by _safe_process_file for each file
    all_valid,          \* run_pipeline: all_valid_transactions
    all_invalid,        \* run_pipeline: all_invalid_transactions
    final_valid,        \* run_pipeline: final_valid_df
    run_result,         \* how the last run_pipeline call ended
    runNo,              \* history: number of run_pipeline calls made
    step_log,           \* history: what happened to each file in the current run
    prev_parse_failed,  \* history: files whose parse+clean failed in the previous run
    ledger_at_start,    \* history: ledgerFile when the current run started
    delivered,          \* history: number of runs whose aggregate held rows of the file
    config,             \* the configuration file as the last __init__ found it
    report_log,         \* history: how the reporting stage of the current run went
    fn, arg, ret, called \* harness for the pure functions

pipeline_vars == <<input_dir, under_root, processed_files, ledgerFile, quarantine, pc,
                   files_to_process, fut, result, all_valid, all_invalid, final_valid,
                   run_result, runNo, step_log, prev_parse_failed, ledger_at_start,
                   delivered, config, report_log>>
harness_vars == <<fn, arg, ret, called>>
vars == <<pipeline_vars, harness_vars>>

None == [ok |-> FALSE, df |-> <<>>]
Some(df) == [ok |-> TRUE, df |-> df]

\* str(file_path.relative_to(self.project_root)) for a file of an input
\* directory "i" that lies directly under the project root
RelPath(name) == <<"i", "/">> \o name

_is_processed_never(name) == FALSE
\* _is_processed
_is_processed(name) == IF under_root THEN InList(RelPath(name), processed_files) ELSE FALSE

\* run_pipeline lines 366-370
Scan ==
    {e.name : e \in {x \in input_dir :
        x.is_file /\ lower(Suffix(x.name)) \in SupportedSuffixes /\ ~_is_processed(x.name)}}

\* a save that opens the log for writing instead of appending
_save_processed_file_truncating(name, write_ok) ==
    IF ~under_root THEN [mem |-> processed_files, file |-> ledgerFile]
    ELSE IF InList(RelPath(name), processed_files)
         THEN [mem |-> processed_files, file |-> ledgerFile]
    ELSE [mem |-> Append(processed_files, RelPath(name)),
          file |-> IF write_ok THEN RelPath(name) \o <<"\n">> ELSE ledgerFile]
\* _save_processed_file: the in-memory list and the log after the call;
\* write_ok tells whether opening and writing the log succeeds
_save_processed_file(name, write_ok) ==
    IF ~under_root THEN [mem |-> processed_files, file |-> ledgerFile]
    ELSE IF InList(RelPath(name), processed_files)
         THEN [mem |-> processed_files, file |-> ledgerFile]
    ELSE [mem |-> Append(processed_files, RelPath(name)),
          file |-> IF write_ok THEN ledgerFile \o RelPath(name) \o <<"\n">>
                   ELSE ledgerFile]

\* quarantine_dir / f"invalid_transactions_{stem}.csv": the name is determined
\* by the stem of the source file
QuarantineSink(name) == Stem(name)

\* lines 408-415: the Categorie column of the valid rows, "raise" for a row
\* whose categorisation raises
Categories(valid_df) ==
    [i \in 1..Len(valid_df) |->
        IF "Description" \in DOMAIN valid_df[i].cells
        THEN categoriser_transaction(valid_df[i].cells["Description"],
                                     valid_df[i].cells["Montant"], <<>>)
        ELSE "autre"]

WithCategories(valid_df) ==
    LET cats == Categories(valid_df)
    IN  [i \in 1..Len(valid_df) |->
            [origin |-> valid_df[i].origin,
             cells |-> [c \in (DOMAIN valid_df[i].cells) \cup {"Categorie"} |->
                          IF c = "Categorie" THEN Str(cats[i])
                          ELSE valid_df[i].cells[c]]]]

CategoryLabels == [df \in KnownFrames |-> Categories(ValidatedFrames[df].valid)]
CategorisedFrames == [df \in KnownFrames |-> WithCategories(ValidatedFrames[df].valid)]

\* the [category_keywords] table of the configuration file, as
\* charger_categories_personnalisees would load it: one label of its own for
\* the keyword "loyer"
ConfigCategoryKeywords ==
    <<[label |-> "logement", mots_cles |-> <<<<"l","o","y","e","r">>>>]>>

RECURSIVE Concat(_)
\* pd.concat(frames, ignore_index=True)
Concat(frames) == IF frames = <<>> THEN <<>> ELSE Head(frames) \o Concat(Tail(frames))

\* the as_completed loop has yielded every future (line 395)
LoopDoneEarly == \E f \in files_to_process : fut[f] = "consumed"
LoopDone == \A f \in files_to_process : fut[f] = "consumed"

\* line 399 and lines 428-429: the ledger is written for a file only when the
\* body of the try block ran to its last statement
SaveAlways(outcome) == TRUE
SaveReached(outcome) == outcome \in {"ok", "relpath_failed", "ledger_write_failed"}

\* the state of a future after the loop body has handled it: nothing
\* resubmits a task
AfterConsumeRetry(outcome) == IF outcome = "parse_failed" THEN "queued" ELSE "consumed"
AfterConsume(outcome) == "consumed"

\* the futures after the loop body has handled the future of f: the body's
\* try/except (lines 397, 432) keeps the loop going, the other futures are
\* not touched
FuturesAfterAbort(f, outcome) ==
    IF outcome = "parse_failed"
    THEN [g \in AllNames |-> IF fut[g] = "none" THEN "none" ELSE "consumed"]
    ELSE [fut EXCEPT ![f] = AfterConsume(outcome)]
FuturesAfter(f, outcome) == [fut EXCEPT ![f] = AfterConsume(outcome)]

\* the configuration file: complete; absent; without an entry that __init__
\* reads by subscript (logging, logging.log_file, paths.encryption_key_file,
\* paths.processed_files_log, paths.output_dir, paths.quarantine_dir); without
\* an entry that only run_pipeline reads by subscript (paths.input_dir,
\* processing).  Every other entry is read with a default.
ConfigCases == {"ok", "no_file", "no_log_file", "no_input_dir"}

\* __init__ raises: _load_config re-raises when the file is absent (the
\* handler's own use of self.logger raises first), a subscript raises KeyError
ConstructAborts(c) == c \in {"no_file", "no_log_file"}

\* a processor was constructed from the configuration
ProcessorExists == ~ConstructAborts(config)

RunAbortsNever(c) == FALSE
\* run_pipeline raises KeyError at lines 358-361, before the scan
RunAborts(c) == c = "no_input_dir"

\* ------------------------------------------------------------------------
\* Initial states
\* ------------------------------------------------------------------------
Init ==
    LET PipelineInit ==
            /\ \E cfg \in Deployments : input_dir = cfg[1] /\ under_root = cfg[2]
            /\ processed_files = <<>>
            /\ ledgerFile = <<>>
            /\ quarantine = [k \in {} |-> <<>>]
            /\ pc = "idle"
            /\ files_to_process = {}
            /\ fut = [f \in AllNames |-> "none"]
            /\ result = [f \in AllNames |-> None]
            /\ all_valid = <<>>
            /\ all_invalid = <<>>
            /\ final_valid = <<>>
            /\ run_result = "none"
            /\ runNo = 0
            /\ step_log = [f \in AllNames |-> "none"]
            /\ prev_parse_failed = {}
            /\ ledger_at_start = <<>>
            /\ delivered = [f \in AllNames |-> 0]
            /\ config \in {c \in ConfigCases : ~ConstructAborts(c)}
            /\ report_log = "none"
        HarnessIdle ==
            /\ fn = "none" /\ arg = <<>> /\ ret = <<>> /\ called = FALSE
    IN  PipelineInit /\ HarnessIdle

\* ------------------------------------------------------------------------
\* Actions of the pipeline
\* ------------------------------------------------------------------------
\* DataProcessor.__init__ of a new process over the same files on disk, the
\* configuration file being whatever it is by then.  When __init__ raises no
\* processor exists and nothing reads its fields until the next construction;
\* otherwise _load_processed_files reads the log, or leaves [] when reading
\* raises
Construct ==
    /\ pc = "idle"
    /\ runNo >= 1 /\ runNo < MaxRuns
    /\ \E c \in ConfigCases :
         /\ config' = c
         /\ IF ConstructAborts(c)
            THEN UNCHANGED processed_files
            ELSE \E read_ok \in BOOLEAN :
                   processed_files' = IF read_ok THEN _load_processed_files(ledgerFile)
                                      ELSE <<>>
    /\ UNCHANGED <<input_dir, under_root, report_log, ledgerFile, quarantine, pc,
                   files_to_process, fut, result, all_valid, all_invalid, final_valid,
                   run_result, runNo, step_log, prev_parse_failed, ledger_at_start,
                   delivered>>
    /\ UNCHANGED harness_vars

\* run_pipeline on a configuration without paths.input_dir or processing:
\* KeyError at lines 358-361, the first statements of the method
RunConfigFailure ==
    /\ pc = "idle"
    /\ ProcessorExists
    /\ RunAborts(config)
    /\ run_result' = "config_failed"
    /\ UNCHANGED <<input_dir, under_root, config, report_log, processed_files, ledgerFile,
                   quarantine, pc, files_to_process, fut, result, all_valid, all_invalid,
                   final_valid, runNo, step_log, prev_parse_failed, ledger_at_start,
                   delivered>>
    /\ UNCHANGED harness_vars

\* run_pipeline lines 358-393: scan, return when nothing is new, else submit
\* one task per file
RunStart ==
    /\ pc = "idle"
    /\ ProcessorExists
    /\ ~RunAborts(config)
    /\ runNo < MaxRuns
    /\ runNo' = runNo + 1
    /\ files_to_process' = Scan
    /\ prev_parse_failed' = {f \in files_to_process : step_log[f] = "parse_failed"}
    /\ step_log' = [f \in AllNames |-> "none"]
    /\ ledger_at_start' = ledgerFile
    /\ IF Scan = {}
       THEN /\ pc' = "idle"
            /\ run_result' = "returned"
            /\ UNCHANGED <<fut, result, all_valid, all_invalid, final_valid>>
       ELSE /\ pc' = "loop"
            /\ run_result' = "running"
            /\ fut' = [f \in AllNames |-> IF f \in Scan THEN "queued" ELSE "none"]
            /\ result' = [f \in AllNames |-> None]
            /\ all_valid' = <<>>
            /\ all_invalid' = <<>>
            /\ final_valid' = <<>>
    /\ report_log' = "none"
    /\ UNCHANGED <<input_dir, under_root, config, processed_files, ledgerFile, quarantine,
                   delivered>>
    /\ UNCHANGED harness_vars

\* a pool that would start a thread for every submitted task
PoolHasIdleWorkerAlways == TRUE
\* ThreadPoolExecutor(max_workers=parallel_workers), line 392: a submitted
\* task starts only while fewer than max_workers tasks are running
PoolHasIdleWorker ==
    Cardinality({g \in AllNames : fut[g] = "running"}) < parallel_workers

\* a worker thread of the pool takes a submitted task
TaskStart(f) ==
    /\ pc = "loop"
    /\ fut[f] = "queued"
    /\ PoolHasIdleWorker
    /\ fut' = [fut EXCEPT ![f] = "running"]
    /\ UNCHANGED <<input_dir, under_root, config, report_log, processed_files, ledgerFile, quarantine, pc,
                   files_to_process, result, all_valid, all_invalid, final_valid,
                   run_result, runNo, step_log, prev_parse_failed, ledger_at_start,
                   delivered>>
    /\ UNCHANGED harness_vars

\* _safe_process_file: parse and clean the file; any exception gives None
TaskFinish(f) ==
    /\ pc = "loop"
    /\ fut[f] = "running"
    /\ fut' = [fut EXCEPT ![f] = "done"]
    /\ \E read_ok \in BOOLEAN :
         result' = [result EXCEPT ![f] =
                      IF read_ok THEN Some(CleanedFrames[f]) ELSE None]
    /\ UNCHANGED <<input_dir, under_root, config, report_log, processed_files, ledgerFile, quarantine, pc,
                   files_to_process, all_valid, all_invalid, final_valid,
                   run_result, runNo, step_log, prev_parse_failed, ledger_at_start,
                   delivered>>
    /\ UNCHANGED harness_vars

\* one iteration of the as_completed loop, lines 396-433.  quarantine_ok and
\* write_ok are the outcomes of invalid_df.to_csv (which fails on opening the
\* sink) and of the append to the log
Consume(f) ==
    /\ pc = "loop"
    /\ fut[f] = "done"
    /\ LET vd == ValidatedFrames[result[f].df]
           cats == CategoryLabels[result[f].df]
           cat_raises == \E i \in 1..Len(cats) : cats[i] = "raise"
       IN  \E quarantine_ok \in (IF result[f].ok /\ ~cat_raises /\ vd.invalid # <<>>
                                 THEN BOOLEAN ELSE {TRUE}) :
           \E write_ok \in (IF result[f].ok /\ ~cat_raises /\ quarantine_ok /\ under_root
                            THEN BOOLEAN ELSE {TRUE}) :
           LET outcome ==
                   IF ~result[f].ok THEN "parse_failed"
                   ELSE IF cat_raises THEN "categorise_failed"
                   ELSE IF ~quarantine_ok THEN "quarantine_failed"
                   ELSE IF ~under_root THEN "relpath_failed"
                   ELSE IF ~write_ok THEN "ledger_write_failed"
                   ELSE "ok"
               categorised == result[f].ok /\ ~cat_raises
               saved == _save_processed_file(f, write_ok)
           IN  /\ step_log' = [step_log EXCEPT ![f] = outcome]
               /\ fut' = FuturesAfter(f, outcome)
               /\ all_valid' = IF categorised /\ vd.valid # <<>>
                               THEN Append(all_valid, CategorisedFrames[result[f].df])
                               ELSE all_valid
               /\ all_invalid' = IF categorised /\ vd.invalid # <<>>
                                 THEN Append(all_invalid, vd.invalid)
                                 ELSE all_invalid
               /\ quarantine' =
                    IF categorised /\ vd.invalid # <<>> /\ quarantine_ok
                    THEN [k \in (DOMAIN quarantine) \cup {QuarantineSink(f)} |->
                            IF k = QuarantineSink(f) THEN vd.invalid ELSE quarantine[k]]
                    ELSE quarantine
               /\ IF result[f].ok /\ SaveReached(outcome)
                  THEN /\ processed_files' = saved.mem
                       /\ ledgerFile' = saved.file
                  ELSE UNCHANGED <<processed_files, ledgerFile>>
    /\ UNCHANGED <<input_dir, under_root, config, report_log, pc, files_to_process, result, final_valid,
                   run_result, runNo, prev_parse_failed, ledger_at_start, delivered>>
    /\ UNCHANGED harness_vars

\* lines 443-446: the loop and the executor's with block are left, the valid
\* frames are concatenated
Aggregate ==
    /\ pc = "loop"
    /\ LoopDone
    /\ final_valid' = Concat(all_valid)
    /\ delivered' = [f \in AllNames |->
                       IF \E i \in 1..Len(Concat(all_valid)) :
                              Concat(all_valid)[i].origin[1] = f
                       THEN delivered[f] + 1 ELSE delivered[f]]
    /\ pc' = "report"
    /\ UNCHANGED <<input_dir, under_root, config, report_log, processed_files, ledgerFile, quarantine,
                   files_to_process, fut, result, all_valid, all_invalid, run_result,
                   runNo, step_log, prev_parse_failed, ledger_at_start>>
    /\ UNCHANGED harness_vars

CommittedAfterReportRollback(outcome) ==
    IF outcome \in {"export_failed", "report_failed"}
    THEN [mem |-> <<>>, file |-> ledger_at_start, sinks |-> [k \in {} |-> <<>>]]
    ELSE [mem |-> processed_files, file |-> ledgerFile, sinks |-> quarantine]
\* the ledger and the sinks after the stage: no statement of lines 449-522
\* assigns self.processed_files, opens the log or writes under quarantine_dir
\* (the stage writes under output_dir only)
CommittedAfterReport(outcome) ==
    [mem |-> processed_files, file |-> ledgerFile, sinks |-> quarantine]

\* lines 449-522: reporting.  export_ok is the outcome of suspects_df.to_csv
\* (line 456), reports_ok that of the PDF, Excel and CSV outputs (lines
\* 473-485); the notification functions catch their own exceptions
Report ==
    LET \* line 453: detect_anomalies(final_valid_df), at the default threshold 3.0
        Suspects == detect_anomalies(final_valid, "Montant", 30)
        \* the except clause of line 489 logs and goes on; that of line 506 logs,
        \* notifies and ends with raise (line 520)
        ReportPropagates(outcome) == outcome = "export_failed"
    IN  /\ pc = "report"
        /\ \E export_ok \in (IF final_valid # <<>> /\ Suspects # <<>> THEN BOOLEAN ELSE {TRUE}) :
           \E reports_ok \in (IF final_valid # <<>> /\ export_ok THEN BOOLEAN ELSE {TRUE}) :
             LET outcome == IF final_valid = <<>> THEN "nothing"
                            ELSE IF ~export_ok THEN "export_failed"
                            ELSE IF ~reports_ok THEN "report_failed"
                            ELSE "ok"
                 after == CommittedAfterReport(outcome)
             IN  /\ report_log' = outcome
                 /\ run_result' = IF ReportPropagates(outcome) THEN "raised" ELSE "returned"
                 /\ processed_files' = after.mem
                 /\ ledgerFile' = after.file
                 /\ quarantine' = after.sinks
        /\ pc' = "idle"
        /\ UNCHANGED <<input_dir, under_root, config, files_to_process, fut, result, all_valid,
                       all_invalid, final_valid, runNo, step_log, prev_parse_failed,
                       ledger_at_start, delivered>>
        /\ UNCHANGED harness_vars

Next ==
    \/ Construct
    \/ RunConfigFailure
    \/ RunStart
    \/ \E f \in AllNames : TaskStart(f)
    \/ \E f \in AllNames : TaskFinish(f)
    \/ \E f \in AllNames : Consume(f)
    \/ Aggregate
    \/ Report

Spec == Init /\ [][Next]_vars

\* ------------------------------------------------------------------------
\* Harness for the pure functions: the arguments are drawn in the initial
\* state, one action applies the function
\* ------------------------------------------------------------------------
PipelineParked ==
    /\ input_dir = DirMain /\ under_root = TRUE
    /\ processed_files = <<>> /\ ledgerFile = <<>>
    /\ quarantine = [k \in {} |-> <<>>]
    /\ pc = "parked"
    /\ files_to_process = {}
    /\ fut = [f \in AllNames |-> "none"]
    /\ result = [f \in AllNames |-> None]
    /\ all_valid = <<>> /\ all_invalid = <<>> /\ final_valid = <<>>
    /\ run_result = "none" /\ runNo = 0
    /\ step_log = [f \in AllNames |-> "none"]
    /\ prev_parse_failed = {}
    /\ ledger_at_start = <<>>
    /\ delivered = [f \in AllNames |-> 0]
    /\ config = "ok" /\ report_log = "none"

Absent == [t |-> "absent"]

\* a row with the given cells; a column whose cell is Absent is not in the row
MkRow(m, d, ie, ib, bic) ==
    LET all == [c \in required_cols |->
                  CASE c = "Montant" -> m
                    [] c = "Devise" -> d
                    [] c = "IBAN_Emetteur" -> ie
                    [] c = "IBAN_Beneficiaire" -> ib
                    [] c = "BIC_SWIFT" -> bic]
    IN  [c \in {x \in required_cols : all[x] # Absent} |-> all[c]]

InitVT ==
    LET \* a [validation] table: the two keys are optional
        MkRules(has_max, mx, has_allowed, al) ==
            [k \in (IF has_max THEN {"max_transaction_amount"} ELSE {})
                   \cup (IF has_allowed THEN {"allowed_currencies"} ELSE {}) |->
                IF k = "max_transaction_amount" THEN mx ELSE al]
        MontantSamples == {Absent, Null, Num(500), Num(1000), Num(1500), Str(T_ABC)}
        DeviseSamples == {Absent, Null, Str(T_EUR), Str(T_EUR_LOW), Str(T_JPY)}
        IbanEmetteurSamples == {Null, Str(IBAN_FR), Str(IBAN_FR_SHORT)}
        IbanBeneficiaireSamples == {Null, Str(IBAN_XX), Str(IBAN_DIGITS)}
        BicSamples == {Absent, Null, Str(BIC_8), Str(BIC_11), Str(BIC_7)}
        RowSamples ==
            {MkRow(m, d, ie, ib, bic) :
                m \in MontantSamples, d \in DeviseSamples, ie \in IbanEmetteurSamples,
                ib \in IbanBeneficiaireSamples, bic \in BicSamples}
        RuleSamples ==
            {MkRules(hm, 1000, ha, al) :
                hm \in BOOLEAN, ha \in BOOLEAN,
                al \in {<<>>, <<T_USD, T_EUR>>, <<T_EUR_LOW>>}}
    IN  /\ PipelineParked
        /\ fn = "validate_transaction"
        /\ arg \in {[row |-> r, rules |-> ru] : r \in RowSamples, ru \in RuleSamples}
        /\ ret = <<>>
        /\ called = FALSE

Call_validate_transaction ==
    /\ fn = "validate_transaction" /\ ~called
    /\ ret' = validate_transaction(arg.row, arg.rules)
    /\ called' = TRUE
    /\ UNCHANGED <<fn, arg>>
    /\ UNCHANGED pipeline_vars

SpecVT == InitVT /\ [][Call_validate_transaction]_vars

InitVD ==
    LET \* a frame of the given rows; without_bic drops the column BIC_SWIFT
        MkFrame(rows, without_bic) ==
            [i \in 1..Len(rows) |->
                [origin |-> <<"t", i>>,
                 cells |-> [c \in (DOMAIN rows[i]) \ (IF without_bic THEN {"BIC_SWIFT"} ELSE {}) |->
                              rows[i][c]]]]
        \* rows of the tables given to _validate_data: valid, amount above the
        \* maximum, currency not allowed, amount that is text, null IBAN, bad BIC
        TableRowSamples ==
            {MkRow(Num(500), Str(T_EUR), Str(IBAN_FR), Str(IBAN_XX), Str(BIC_8)),
             MkRow(Num(1500), Str(T_EUR), Str(IBAN_FR), Str(IBAN_XX), Str(BIC_8)),
             MkRow(Num(500), Str(T_JPY), Str(IBAN_FR), Str(IBAN_XX), Str(BIC_8)),
             MkRow(Str(T_ABC), Str(T_EUR), Str(IBAN_FR), Str(IBAN_XX), Str(BIC_8)),
             MkRow(Num(500), Str(T_EUR), Null, Str(IBAN_XX), Str(BIC_8)),
             MkRow(Num(500), Str(T_EUR), Str(IBAN_FR), Str(IBAN_XX), Str(BIC_7))}
        TableSamples ==
            {MkFrame(rows, wb) :
                rows \in UNION {[1..n -> TableRowSamples] : n \in 0..MaxRows}, wb \in BOOLEAN}
    IN  /\ PipelineParked
        /\ fn = "_validate_data"
        /\ arg \in {[df |-> t, rules |-> ru] : t \in TableSamples, ru \in {ProcessorRules}}
        /\ ret = <<>>
        /\ called = FALSE

Call_validate_data ==
    /\ fn = "_validate_data" /\ ~called
    /\ ret' = _validate_data(arg.df, arg.rules)
    /\ called' = TRUE
    /\ UNCHANGED <<fn, arg>>
    /\ UNCHANGED pipeline_vars

SpecVD == InitVD /\ [][Call_validate_data]_vars

\* ------------------------------------------------------------------------
\* Properties
\* ------------------------------------------------------------------------
Count(x, seq) == Cardinality({i \in 1..Len(seq) : seq[i] = x})
NoDuplicates(seq) == \A i, j \in 1..Len(seq) : seq[i] = seq[j] => i = j
IsPrefix(a, b) == Len(a) <= Len(b) /\ SubSeq(b, 1, Len(a)) = a
OriginsOf(df) == {df[i].origin : i \in 1..Len(df)}

\* the file is in the in-memory ProcessedFileSet
InMemory(f) == under_root /\ InList(RelPath(f), processed_files)
\* a line holding the file's relative path was appended to the log since the
\* current run started
LedgerGrewFor(f) ==
    Count(RelPath(f), SplitLines(ledgerFile)) > Count(RelPath(f), SplitLines(ledger_at_start))
\* the supported files of the input directory
SupportedFiles ==
    {e.name : e \in {x \in input_dir : x.is_file /\ lower(Suffix(x.name)) \in SupportedSuffixes}}
AllRecorded == \A f \in SupportedFiles : InMemory(f)
StepFailures == {"parse_failed", "categorise_failed", "quarantine_failed",
                 "relpath_failed", "ledger_write_failed"}

\* C1: during a run, a file is in ProcessedFileSet (in memory, or by a line
\* appended to the log in this run) only if its parse and clean succeeded, its
\* validation and categorisation ran without error and, when it has invalid
\* rows, its quarantine sink was written; a file for which one of these steps
\* raised is not appended.
C1_AppendOnlyAfterSuccess ==
    \A f \in files_to_process :
        ((pc # "idle" /\ InMemory(f)) \/ LedgerGrewFor(f)) =>
            /\ result[f].ok
            /\ step_log[f] \in {"ok", "ledger_write_failed"}
            /\ ValidatedFrames[result[f].df].invalid # <<>> =>
                   QuarantineSink(f) \in DOMAIN quarantine

C1_Witness ==
    /\ pc = "loop"
    /\ \E f, g \in files_to_process :
         /\ InMemory(f) /\ LedgerGrewFor(f)
         /\ ValidatedFrames[result[f].df].invalid # <<>>
         /\ step_log[g] = "quarantine_failed" /\ ~InMemory(g)

C3_SecondRunProcessesNothing ==
    [][(pc = "idle" /\ runNo >= 1 /\ runNo' = runNo + 1) =>
          /\ files_to_process' = {}
          /\ pc' = "idle"
          /\ processed_files' = processed_files
          /\ ledgerFile' = ledgerFile]_vars

\* C3 amended: a run that starts when every supported file of the input
\* directory is in ProcessedFileSet processes zero files and leaves
\* ProcessedFileSet, the log and the quarantine unchanged.
C3_RunOverRecordedFilesIsNoOp ==
    [][(pc = "idle" /\ runNo' = runNo + 1 /\ AllRecorded) =>
          /\ files_to_process' = {}
          /\ pc' = "idle"
          /\ run_result' = "returned"
          /\ processed_files' = processed_files
          /\ ledgerFile' = ledgerFile
          /\ quarantine' = quarantine]_vars

C3_Witness ==
    /\ runNo >= 2 /\ pc = "idle"
    /\ files_to_process = {}
    /\ SupportedFiles # {} /\ AllRecorded
    /\ ledgerFile = ledger_at_start

\* C4: no file's rows are delivered to the aggregate of more than one run, and
\* a file whose rows are in a run's aggregate was recorded in ProcessedFileSet
\* (in memory and in the log) by that run.
C4_NoDoubleDelivery ==
    /\ \A f \in AllNames : delivered[f] <= 1
    /\ pc = "report" =>
         \A i \in 1..Len(final_valid) :
            InMemory(final_valid[i].origin[1]) /\ LedgerGrewFor(final_valid[i].origin[1])

\* C5: when the loop of a run is over, every dispatched file has been handled
\* (none is left out because a sibling failed), every file whose parse and
\* clean succeeded has been validated, and every file none of whose own steps
\* failed is in ProcessedFileSet, in memory and in the log, whatever happened
\* to its siblings and in whatever order the tasks completed.
C5_DispatcherIsolation ==
    pc = "report" =>
        \A f \in files_to_process :
            /\ fut[f] = "consumed"
            /\ step_log[f] # "none"
            /\ result[f].ok <=> step_log[f] # "parse_failed"
            /\ step_log[f] \notin StepFailures => InMemory(f) /\ LedgerGrewFor(f)

C5_Witness ==
    /\ pc = "report"
    /\ \E f, g \in files_to_process :
         /\ step_log[f] = "parse_failed"
         /\ step_log[g] = "ok" /\ InMemory(g) /\ LedgerGrewFor(g)

\* C6: the valid rows are concatenated, and Reporting runs, only when every
\* task dispatched in the run has finished and its future has been consumed.
C6_AggregationBarrier ==
    pc = "report" =>
        /\ \A f \in AllNames : fut[f] \in {"none", "consumed"}
        /\ \A f \in files_to_process : fut[f] = "consumed"
        /\ final_valid = Concat(all_valid)

C6_Witness ==
    /\ pc = "report"
    /\ Cardinality(files_to_process) >= 2
    /\ final_valid # <<>>
    /\ \E f \in files_to_process : ~result[f].ok

\* C7: _validate_data puts every row of a cleaned table in exactly one of its
\* two outputs, so the sizes add up, and a row whose validation raises is in
\* the invalid output.
C7_PartitionTotality ==
    (called /\ fn = "_validate_data") =>
        /\ Len(ret.valid) + Len(ret.invalid) = Len(arg.df)
        /\ \A i \in 1..Len(arg.df) :
             /\ (arg.df[i].origin \in OriginsOf(ret.valid))
                    # (arg.df[i].origin \in OriginsOf(ret.invalid))
             /\ validate_transaction(AddExpectedCols(arg.df[i].cells), arg.rules) = "raise"
                    => arg.df[i].origin \in OriginsOf(ret.invalid)

C7_Witness ==
    /\ called /\ fn = "_validate_data"
    /\ ret.valid # <<>>
    /\ \E i \in 1..Len(arg.df) :
         /\ validate_transaction(AddExpectedCols(arg.df[i].cells), arg.rules) = "raise"
         /\ arg.df[i].origin \in OriginsOf(ret.invalid)

\* C8: when the loop of a run is over, every row the parser returned for a
\* scanned file is in exactly one of: the aggregated valid set, the file's
\* quarantine sink, a file that is not in ProcessedFileSet.
RowInValid(f, i) == \E j \in 1..Len(final_valid) : final_valid[j].origin = <<f, i>>
RowInQuarantine(f, i) ==
    /\ QuarantineSink(f) \in DOMAIN quarantine
    /\ \E j \in 1..Len(quarantine[QuarantineSink(f)]) :
         quarantine[QuarantineSink(f)][j].origin = <<f, i>>
FileExcluded(f) == ~InMemory(f)

C8_EveryRowOneOutcome ==
    pc = "report" =>
        \A f \in files_to_process :
            result[f].ok =>
                \A i \in 1..Len(ParsedFrame(f)) :
                    \/ RowInValid(f, i) /\ ~RowInQuarantine(f, i) /\ ~FileExcluded(f)
                    \/ ~RowInValid(f, i) /\ RowInQuarantine(f, i) /\ ~FileExcluded(f)
                    \/ ~RowInValid(f, i) /\ ~RowInQuarantine(f, i) /\ FileExcluded(f)

\* C9: every identifier is at most once in the in-memory list and at most once
\* in the log, and the log only grows.
C9_LedgerEntriesUnique ==
    /\ NoDuplicates(processed_files)
    /\ NoDuplicates(_load_processed_files(ledgerFile))
    /\ IsPrefix(ledger_at_start, ledgerFile)

\* C10 as stated: validate_transaction reports valid exactly when the five
\* fields are present and non-null, Amount is not above the maximum, the
\* currency, trimmed and upper-cased, is in allowed_currencies or that list is
\* empty, both IBANs and the BIC pass their structural checks; otherwise it
\* reports invalid.
RowPresent(row) == \A c \in required_cols : c \in DOMAIN row /\ row[c].t # "null"
AmountWithinMax(row, rules) ==
    ~(/\ row["Montant"].t = "num"
      /\ "max_transaction_amount" \in DOMAIN rules
      /\ row["Montant"].v > rules["max_transaction_amount"])
RawAllowed(rules) ==
    IF "allowed_currencies" \in DOMAIN rules THEN rules["allowed_currencies"] ELSE <<>>
NormalCurrency(row) == upper(strip(py_str(row["Devise"])))
StructureOK(row) ==
    /\ validate_iban(row["IBAN_Emetteur"])
    /\ validate_iban(row["IBAN_Beneficiaire"])
    /\ validate_bic(row["BIC_SWIFT"])

C11_InvalidCarriesReason ==
    (fn = "validate_transaction" /\ called /\ ret = "False") =>
        /\ returned_reason(ret) = debug_message(arg.row, arg.rules)
        /\ returned_reason(ret) \in {"missing_columns", "null_values", "amount", "currency",
                                     "iban_emetteur", "iban_beneficiaire", "bic"}

\* ------------------------------------------------------------------------
\* Harness for validate_iban and validate_bic
\* ------------------------------------------------------------------------
InitIBAN ==
    LET \* IBAN texts: a country part, a check part and an account part, each drawn
        \* from well-formed and malformed samples, next to the texts of the examples
        IbanCountrySamples == {<<"F","R">>, <<"f","r">>, <<"D","E">>, <<"X","X">>, <<"É","É">>, <<"1","A">>, <<"F"," ">>}
        IbanCheckSamples == {<<"1","4">>, <<"1","A">>, <<"é","1">>}
        IbanAccountSamples == {<<>>, <<"A">>, <<"A","B","C","D","E","F">>, <<"A","B","-","D","E","F">>, <<"A","B"," ","D","E","F">>, <<"a","b","é","d","e","f">>, <<"2","0","0","4","1","0","1","0","0","5","0","5","0","0","0","1","3","M","0","2","6","0","6">>, <<"3","7","0","4","0","0","4","4","0","5","3","2","0","1","3","0","0","0">>}
        IbanTextSamples ==
            {c \o k \o a : c \in IbanCountrySamples, k \in IbanCheckSamples, a \in IbanAccountSamples}
                \cup {IBAN_FR, IBAN_FR_SPACED, IBAN_XX, IBAN_DIGITS, IBAN_FR_SHORT}
    IN  /\ PipelineParked
        /\ fn = "validate_iban"
        /\ arg \in {[text |-> t] : t \in IbanTextSamples}
        /\ ret = <<>>
        /\ called = FALSE

Call_validate_iban ==
    /\ fn = "validate_iban" /\ ~called
    /\ ret' = validate_iban(Str(arg.text))
    /\ called' = TRUE
    /\ UNCHANGED <<fn, arg>>
    /\ UNCHANGED pipeline_vars

SpecIBAN == InitIBAN /\ [][Call_validate_iban]_vars

InitBIC ==
    LET \* BIC texts: bank, country, location and branch parts
        BicBankSamples == {<<"B","N","P","A">>, <<"b","n","p","a">>, <<"B","N","1","A">>, <<"É","é","É","é">>, <<"B","N","P">>}
        BicCountrySamples == {<<"F","R">>, <<"F","1">>, <<"f","r">>, <<"é","é">>}
        BicLocationSamples == {<<"P","P">>, <<"P","1">>, <<"P","-">>, <<"P"," ">>}
        BicBranchSamples == {<<>>, <<"X","X","X">>, <<"x","1","x">>, <<"X","-","X">>, <<"X","X">>, <<"X","X","X","X">>}
        BicTextSamples ==
            {b \o c \o l \o r : b \in BicBankSamples, c \in BicCountrySamples,
                                l \in BicLocationSamples, r \in BicBranchSamples}
                \cup {BIC_8, BIC_11, BIC_7}
    IN  /\ PipelineParked
        /\ fn = "validate_bic"
        /\ arg \in {[text |-> t] : t \in BicTextSamples}
        /\ ret = <<>>
        /\ called = FALSE

Call_validate_bic ==
    /\ fn = "validate_bic" /\ ~called
    /\ ret' = validate_bic(Str(arg.text))
    /\ called' = TRUE
    /\ UNCHANGED <<fn, arg>>
    /\ UNCHANGED pipeline_vars

SpecBIC == InitBIC /\ [][Call_validate_bic]_vars

\* the text a structural check reads: spaces removed, upper-cased
Normalised(t) == upper(RemoveSpaces(t))
\* the length rule of the per-country table
IbanLengthOK(n) ==
    Slice(n, 0, 2) \in DOMAIN country_lengths => Len(n) = country_lengths[Slice(n, 0, 2)]

\* C12 as stated: validate_iban accepts a text exactly when, normalised, it
\* has at least 5 characters, characters 1-2 are letters, characters 3-4 are
\* digits, the rest is alphanumeric and the length is the table's when the
\* country is in the table; the FR example and the 10-character example with
\* an unknown country pass, "12ABCDEFGH" fails.
C12_IbanAcceptedExactlyWhen ==
    (fn = "validate_iban" /\ called) =>
        LET n == Normalised(arg.text)
        IN  /\ ret <=> /\ Len(n) >= 5
                        /\ IsAlphaCh(n[1]) /\ IsAlphaCh(n[2])
                        /\ IsDigitCh(n[3]) /\ IsDigitCh(n[4])
                        /\ (\A i \in 5..Len(n) : IsAlnumCh(n[i]))
                        /\ IbanLengthOK(n)
            /\ arg.text \in {IBAN_FR, IBAN_XX} => ret
            /\ arg.text = IBAN_DIGITS => ~ret

\* C12 amended: the same with characters 1-2 being letters of A-Z.
C12_IbanAcceptedExactlyWhenAscii ==
    (fn = "validate_iban" /\ called) =>
        LET n == Normalised(arg.text)
        IN  /\ ret <=> /\ Len(n) >= 5
                        /\ IsUpperCh(n[1]) /\ IsUpperCh(n[2])
                        /\ IsDigitCh(n[3]) /\ IsDigitCh(n[4])
                        /\ (\A i \in 5..Len(n) : IsAlnumCh(n[i]))
                        /\ IbanLengthOK(n)
            /\ arg.text \in {IBAN_FR, IBAN_XX} => ret
            /\ arg.text = IBAN_DIGITS => ~ret

C12_Witness ==
    /\ fn = "validate_iban" /\ called
    /\ arg.text = IBAN_FR_SPACED
    /\ ret = TRUE

\* C13: validate_bic accepts a text exactly when, normalised, its length is 8
\* or 11, characters 1-4 are letters, characters 5-6 are letters, characters
\* 7-8 are alphanumeric and characters 9-11, when present, are alphanumeric;
\* "BNPAFRPP" and "BNPAFRPPXXX" are accepted, "BNPAFRP" is not.
C13_BicAcceptedExactlyWhen ==
    (fn = "validate_bic" /\ called) =>
        LET n == Normalised(arg.text)
        IN  /\ ret <=> /\ Len(n) \in {8, 11}
                        /\ (\A i \in 1..6 : IsAlphaCh(n[i]))
                        /\ (\A j \in 7..8 : IsAlnumCh(n[j]))
                        /\ (\A k \in 9..Len(n) : IsAlnumCh(n[k]))
            /\ arg.text \in {BIC_8, BIC_11} => ret
            /\ arg.text = BIC_7 => ~ret

C13_Witness ==
    /\ fn = "validate_bic" /\ called
    /\ Len(Normalised(arg.text)) = 11
    /\ arg.text \notin {BIC_8, BIC_11, BIC_7}
    /\ ret = TRUE

\* ------------------------------------------------------------------------
\* Harness for the cleaner followed by validation, as _process_csv and the
\* completion loop chain them for one file
\* ------------------------------------------------------------------------
InitCV ==
    LET \* raw rows as a parser returns them: a valid row; amounts that are not
        \* numbers; an amount with blanks and a decimal comma next to a currency and
        \* an IBAN to normalise; an amount above the maximum; a malformed IBAN; an
        \* empty amount cell
        RawRowSamples ==
            {Row(Str(<<"5">>), Str(T_EUR), Str(IBAN_FR), Str(IBAN_XX), Str(BIC_8), Str(T_LOYER)),
             Row(Str(T_ABC), Str(T_EUR), Str(IBAN_FR), Str(IBAN_XX), Str(BIC_8), Str(T_LOYER)),
             Row(Str(<<" ","2",",","5">>), Str(T_EUR_LOW), Str(IBAN_FR_SPACED), Str(IBAN_XX), Str(BIC_11), Str(T_LOYER)),
             Row(Str(<<"1",",","2","0","0",".","5","0">>), Str(T_USD), Str(IBAN_FR), Str(IBAN_XX), Str(BIC_8), Str(T_LOYER)),
             Row(Str(<<"1","5">>), Str(T_EUR), Str(IBAN_FR), Str(IBAN_XX), Str(BIC_8), Str(T_LOYER)),
             Row(Str(<<"5">>), Str(T_EUR), Str(IBAN_DIGITS), Str(IBAN_XX), Str(BIC_8), Str(T_LOYER)),
             Row(Null, Str(T_EUR), Str(IBAN_FR), Str(IBAN_XX), Str(BIC_8), Str(T_LOYER))}
        RawFrameSamples ==
            {[i \in 1..Len(rows) |-> [origin |-> <<"t", i>>, cells |-> rows[i]]] :
                rows \in UNION {[1..n -> RawRowSamples] : n \in 0..MaxRows}}
    IN  /\ PipelineParked
        /\ fn = "clean_then_validate"
        /\ arg \in {[raw |-> t] : t \in RawFrameSamples}
        /\ ret = <<>>
        /\ called = FALSE

Call_clean_then_validate ==
    /\ fn = "clean_then_validate" /\ ~called
    /\ LET cleaned == _clean_data(arg.raw)
           out == _validate_data(cleaned, ProcessorRules)
       IN  ret' = [cleaned |-> cleaned, valid |-> out.valid, invalid |-> out.invalid]
    /\ called' = TRUE
    /\ UNCHANGED <<fn, arg>>
    /\ UNCHANGED pipeline_vars

SpecCV == InitCV /\ [][Call_clean_then_validate]_vars

\* the row of frame df that came from position p of the parsed table
RowAt(df, p) == df[CHOOSE k \in 1..Len(df) : df[k].origin = p]

AmountUnparsable(cells) ==
    /\ cells["Montant"].t = "str"
    /\ strip(cells["Montant"].v) # <<>>
    /\ to_numeric(strip(CommaToDot(strip(cells["Montant"].v)))) = Null

\* C15: a parsed row whose Amount is present and is not a number is kept by
\* the cleaner (by itself or, when an earlier row is equal to it on every
\* column, by that first copy) with a null Amount, and that row is in the
\* invalid output of validation and not in the valid one.
C15_UnparsableAmountFlowsToInvalid ==
    (fn = "clean_then_validate" /\ called) =>
        \A i \in 1..Len(arg.raw) :
            AmountUnparsable(arg.raw[i].cells) =>
                \E j \in 1..i :
                    /\ arg.raw[j].cells = arg.raw[i].cells
                    /\ arg.raw[j].origin \in OriginsOf(ret.cleaned)
                    /\ RowAt(ret.cleaned, arg.raw[j].origin).cells["Montant"] = Null
                    /\ arg.raw[j].origin \in OriginsOf(ret.invalid)
                    /\ arg.raw[j].origin \notin OriginsOf(ret.valid)

C15_Witness ==
    /\ fn = "clean_then_validate" /\ called
    /\ \E i \in 1..Len(arg.raw) :
          /\ AmountUnparsable(arg.raw[i].cells)
          /\ arg.raw[i].origin \in OriginsOf(ret.invalid)
    /\ ret.valid # <<>>

\* ------------------------------------------------------------------------
\* Harness for detect_anomalies
\* ------------------------------------------------------------------------
\* the amounts 10, 10, 10, 10, 1000
TenTenThousand == <<Num(1000), Num(1000), Num(1000), Num(1000), Num(100000)>>

InitDA ==
    LET \* a frame with one row per amount; without_montant drops the column Montant
        AmountFrame(amounts, without_montant) ==
            [i \in 1..Len(amounts) |->
                [origin |-> <<"t", i>>,
                 cells |-> [c \in {"Devise"} \cup (IF without_montant THEN {} ELSE {"Montant"}) |->
                              IF c = "Montant" THEN amounts[i] ELSE Str(T_EUR)]]]
        AmountListSamples ==
            UNION {[1..n -> {Null, Num(10), Num(30), Num(1000)}] : n \in 0..MaxRows}
                \cup {TenTenThousand}
        \* thresholds in tenths: -1.0, 0.0, 1.5, 2.0, 3.0, 10.0
        SeuilSamples == {-10, 0, 15, 20, 30, 100}
    IN  /\ PipelineParked
        /\ fn = "detect_anomalies"
        /\ arg \in {[amounts |-> a, df |-> AmountFrame(a, wm), seuil |-> st] :
                      a \in AmountListSamples, wm \in BOOLEAN, st \in SeuilSamples}
        /\ ret = <<>>
        /\ called = FALSE

Call_detect_anomalies ==
    /\ fn = "detect_anomalies" /\ ~called
    /\ ret' = detect_anomalies(arg.df, "Montant", arg.seuil)
    /\ called' = TRUE
    /\ UNCHANGED <<fn, arg>>
    /\ UNCHANGED pipeline_vars

SpecDA == InitDA /\ [][Call_detect_anomalies]_vars

\* the call is on the amounts 10, 10, 10, 10, 1000 in the column Montant
OnTenTenThousand ==
    /\ fn = "detect_anomalies" /\ called
    /\ arg.amounts = TenTenThousand
    /\ "Montant" \in DOMAIN arg.df[1].cells

\* C19 as stated: on the amounts 10, 10, 10, 10, 1000 the row with 1000, and
\* only that row, is flagged at threshold 3.0, and no row at threshold 10.0.
C19_OutlierFlaggedAtThree ==
    OnTenTenThousand =>
        /\ arg.seuil = 30 => OriginsOf(ret) = {<<"t", 5>>}
        /\ arg.seuil = 100 => ret = <<>>

\* C19 amended: on these amounts the z-score of 1000 is 2.0, so no row is
\* flagged at threshold 3.0, at 10.0 or at 2.0 itself, and the row with 1000,
\* and only that row, is flagged at 1.5.
C19_OutlierFlaggedBelowTwo ==
    OnTenTenThousand =>
        /\ arg.seuil \in {20, 30, 100} => ret = <<>>
        /\ arg.seuil = 15 => OriginsOf(ret) = {<<"t", 5>>}

C19_Witness ==
    /\ OnTenTenThousand
    /\ arg.seuil = 15
    /\ Len(ret) = 1

\* C20: when all the non-null amounts are equal no row is flagged, whatever
\* the threshold; when the column is missing or holds only nulls the result
\* is the empty frame.
C20_NoSpreadNoAnomaly ==
    LET \* the non-null amounts of the call
        NonNullAmounts == {arg.amounts[i] : i \in {k \in 1..Len(arg.amounts) : arg.amounts[k] # Null}}
    IN  (fn = "detect_anomalies" /\ called) =>
            /\ Cardinality(NonNullAmounts) <= 1 => ret = <<>>
            /\ (arg.df # <<>> /\ "Montant" \notin DOMAIN arg.df[1].cells) => ret = <<>>

\* ------------------------------------------------------------------------
\* Reporting and configuration
\* ------------------------------------------------------------------------
\* C16: a failure raised during the reporting stage is non-fatal: the stage
\* always ends with run_pipeline returning normally.
C16_ReportingFailureNonFatal ==
    [][pc = "report" => run_result' = "returned"]_vars

\* C17: the reporting stage leaves ProcessedFileSet, the log and every
\* quarantine sink as the loop committed them, whether it succeeds or fails.
C17_ReportingLeavesCommitted ==
    [][pc = "report" =>
          /\ processed_files' = processed_files
          /\ ledgerFile' = ledgerFile
          /\ quarantine' = quarantine]_vars

C17_Witness ==
    /\ pc = "idle"
    /\ report_log = "report_failed" /\ run_result = "returned"
    /\ ledgerFile # <<>> /\ processed_files # <<>>
    /\ DOMAIN quarantine # {}

\* C18: a step that finds the configuration missing or incomplete, or that is
\* taken under such a configuration, starts no run (no task is submitted, no
\* file parsed), writes no quarantine sink, leaves the log as it is, and ends
\* no run normally; ProcessedFileSet is as it was, or as a newly constructed
\* processor loads it from the unchanged log.
C18_ConfigFailureAbortsBeforeFiles ==
    [][config' # "ok" =>
          /\ pc' = "idle"
          /\ fut' = fut /\ result' = result
          /\ quarantine' = quarantine
          /\ ledgerFile' = ledgerFile
          /\ run_result' \in {run_result, "config_failed"}
          /\ \/ processed_files' = processed_files
             \/ /\ ~ConstructAborts(config')
                /\ processed_files' \in {_load_processed_files(ledgerFile), <<>>}]_vars

C18_Witness ==
    /\ ConstructAborts(config)
    /\ run_result = "config_failed"
    /\ ledgerFile # <<>>
    /\ DOMAIN quarantine # {}

\* ------------------------------------------------------------------------
\* Harness for categoriser_transaction
\* ------------------------------------------------------------------------
InitCAT ==
    LET \* "Loyer mars", the keyword between literal \b marks, two keywords of
        \* different labels, a keyword inside a longer word or between
        \* underscores, in capitals, alone, no keyword, and the empty
        \* description (row.get('Description', '') of an absent one)
        LibelleSamples ==
            {T_LOYER,
             <<"\\","b","l","o","y","e","r","\\","b">>,
             <<"r","e","n","t"," ","s","a","l","a","i","r","e">>,
             <<"p","a","r","e","n","t">>,
             <<"_","l","o","y","e","r","_">>,
             <<"L","O","Y","E","R">>,
             <<"r","e","n","t">>,
             <<"\\","b","R","E","N","T","\\","b"," ","x">>,
             T_ABC,
             <<>>}
        \* categories=None, and a table given by the caller
        TableSamples ==
            {<<>>,
             <<[label |-> "abonnement", mots_cles |-> <<T_ABC>>],
               [label |-> "logement", mots_cles |-> <<<<"l","o","y","e","r">>>>]>>}
    IN  /\ PipelineParked
        /\ fn = "categoriser_transaction"
        /\ arg \in {[libelle |-> l, montant |-> m, categories |-> c] :
                      l \in LibelleSamples, m \in {Num(0), Num(500), Num(1500)},
                      c \in TableSamples}
        /\ ret = <<>>
        /\ called = FALSE

Call_categoriser_transaction ==
    /\ fn = "categoriser_transaction" /\ ~called
    /\ ret' = categoriser_transaction(Str(arg.libelle), arg.montant, arg.categories)
    /\ called' = TRUE
    /\ UNCHANGED <<fn, arg>>
    /\ UNCHANGED pipeline_vars

SpecCAT == InitCAT /\ [][Call_categoriser_transaction]_vars

\* C21: the label returned is that of the first entry of the mapping, in its
\* order, one of whose keywords occurs in the description as a whole word,
\* compared without regard to case; it is the default label "autre" when no
\* keyword matches or the description is empty.
C21_FirstWholeWordLabel ==
    LET IsWordCh(c) == IsAlnumCh(c) \/ c = "_"
        WholeWord(text, w) ==
            \E i \in 1..(Len(text) - Len(w) + 1) :
                /\ SubSeq(text, i, i + Len(w) - 1) = w
                /\ (i = 1 \/ ~IsWordCh(text[i - 1]))
                /\ (i + Len(w) - 1 = Len(text) \/ ~IsWordCh(text[i + Len(w)]))
        table == IF arg.categories = <<>> THEN CATEGORIES_PAR_DEFAUT ELSE arg.categories
        matching == {k \in 1..Len(table) :
                        \E j \in 1..Len(table[k].mots_cles) :
                            WholeWord(lower(arg.libelle), lower(table[k].mots_cles[j]))}
        first == CHOOSE k \in matching : \A k2 \in matching : k <= k2
    IN  (fn = "categoriser_transaction" /\ called) =>
            ret = IF arg.libelle = <<>> \/ matching = {} THEN "autre"
                  ELSE table[first].label

\* ------------------------------------------------------------------------
\* Categories from the configuration
\* ------------------------------------------------------------------------
\* C22: the configuration supplies category_keywords, so the label of every
\* valid row collected in the run is the one computed from that table alone.
C22_LabelsFromConfiguredTable ==
    \A i \in 1..Len(final_valid) :
        final_valid[i].cells["Categorie"] =
            Str(categoriser_transaction(final_valid[i].cells["Description"],
                                        final_valid[i].cells["Montant"],
                                        ConfigCategoryKeywords))

\* ------------------------------------------------------------------------
\* The value of the run entry point
\* ------------------------------------------------------------------------
\* what the caller of run_pipeline gets: the method has no return statement
\* with a value (a bare return when nothing is to be processed, the end of
\* the body otherwise), and an exception where the run raised
run_pipeline_value ==
    CASE run_result = "returned" -> [value |-> "None"]
      [] run_result \in {"raised", "config_failed"} -> [exception |-> TRUE]
      [] OTHER -> [pending |-> TRUE]

\* C23: a run that returned gave its caller a summary with the fields
\* valid_count, invalid_count, anomaly_count and per_file_errors, also when
\* files failed and when no file or no valid row was found.
C23_RunReturnsSummary ==
    run_result = "returned" =>
        DOMAIN run_pipeline_value =
            {"valid_count", "invalid_count", "anomaly_count", "per_file_errors"}

\* ------------------------------------------------------------------------
\* The worker pool
\* ------------------------------------------------------------------------
\* C24: never more than parallel_workers tasks run at once; a run submits
\* one task for each scanned file and for no other, and no task is queued
\* again during the run; the result of a task changes only when that task
\* finishes, to the cleaned rows of its own file or to None, and no other
\* task's result changes with it.
C24_BoundedPoolOwnRows ==
    [][/\ Cardinality({g \in AllNames : fut'[g] = "running"}) <= parallel_workers
       /\ (pc = "idle" /\ pc' = "loop") =>
              \A f \in AllNames : (fut'[f] = "queued") <=> (f \in Scan)
       /\ pc # "idle" =>
              \A f \in AllNames :
                 /\ (fut'[f] = "queued") => (fut[f] = "queued")
                 /\ (fut[f] = "none") <=> (fut'[f] = "none")
                 /\ (result'[f] # result[f]) =>
                        /\ fut[f] = "running" /\ fut'[f] = "done"
                        /\ result'[f] \in {None, Some(CleanedFrames[f])}
                        /\ \A g \in AllNames \ {f} :
                              result'[g] = result[g] /\ fut'[g] = fut[g]]_vars

\* every worker of the pool is busy while a submitted task still waits
C24_Witness ==
    /\ pc = "loop"
    /\ Cardinality({g \in AllNames : fut[g] = "running"}) = parallel_workers
    /\ \E f \in files_to_process : fut[f] = "queued"
    /\ \E f \in files_to_process : fut[f] = "running" /\ result[f] = None

\* ------------------------------------------------------------------------
\* mask_sensitive_data on its own
\* ------------------------------------------------------------------------
InitMASK ==
    LET MaskChars == {"F", "7", "*"}
        MaskTextSamples ==
            {<<>>} \cup UNION {[1..n -> MaskChars] : n \in 1..3} \cup {IBAN_FR, BIC_8}
    IN  /\ PipelineParked
        /\ fn = "mask_sensitive_data"
        /\ arg \in {[data |-> t, characters_to_show |-> k] :
                       t \in MaskTextSamples, k \in 0..4}
        /\ ret = <<>>
        /\ called = FALSE

Call_mask_sensitive_data ==
    /\ fn = "mask_sensitive_data" /\ ~called
    /\ ret' = mask_sensitive_data(arg.data, arg.characters_to_show)
    /\ called' = TRUE
    /\ UNCHANGED <<fn, arg>>
    /\ UNCHANGED pipeline_vars

SpecMASK == InitMASK /\ [][Call_mask_sensitive_data]_vars

\* C25: the masked text has the length of the original; when the original is
\* longer than k its last k characters are kept and every other position is
\* '*'; when it is not longer than k every position is '*'; the empty text
\* gives the empty text.
C25_MaskKeepsOnlyLastK ==
    (fn = "mask_sensitive_data" /\ called) =>
        /\ Len(ret) = Len(arg.data)
        /\ \A i \in 1..Len(ret) :
              ret[i] = IF /\ Len(arg.data) > arg.characters_to_show
                          /\ i > Len(arg.data) - arg.characters_to_show
                       THEN arg.data[i] ELSE "*"

\* ------------------------------------------------------------------------
\* Quarantine sinks
\* ------------------------------------------------------------------------
\* C26: when the loop of a run is over, every file of the run that got past
\* its quarantine write and has invalid rows has a sink, named from its stem,
\* that holds exactly that file's invalid rows: no other file of the run has
\* overwritten it.
C26_OwnSinkPerSource ==
    pc = "report" =>
        \A f \in files_to_process :
            (/\ step_log[f] \in {"ok", "relpath_failed", "ledger_write_failed"}
             /\ ValidatedFrames[result[f].df].invalid # <<>>) =>
                /\ QuarantineSink(f) \in DOMAIN quarantine
                /\ quarantine[QuarantineSink(f)] = ValidatedFrames[result[f].df].invalid

\* ------------------------------------------------------------------------
\* Amounts written with a comma and a dot
\* ------------------------------------------------------------------------
\* C27: the cleaner drops duplicate rows and keeps the others, and it reads
\* the amount text as its number whether the text has a comma or a dot: the
\* text '1,200.50' becomes 1200.50, the text '5' becomes 5.0 and the text
\* ' 2,5' becomes 2.5.
C27_AmountReadWithEitherSeparator ==
    (fn = "clean_then_validate" /\ called) =>
        /\ Len(ret.cleaned) = Cardinality({arg.raw[i].cells : i \in 1..Len(arg.raw)})
        /\ \A k \in 1..Len(ret.cleaned) :
              LET raw == arg.raw[ret.cleaned[k].origin[2]].cells["Montant"]
                  cleaned == ret.cleaned[k].cells["Montant"]
              IN  /\ raw = Str(<<"1",",","2","0","0",".","5","0">>) => cleaned = Num(120050)
                  /\ raw = Str(<<"5">>) => cleaned = Num(500)
                  /\ raw = Str(<<" ","2",",","5">>) => cleaned = Num(250)

\* ------------------------------------------------------------------------
\* Appends to the log under the pool
\* ------------------------------------------------------------------------
\* C28: during the loop of a run the log and the in-memory list change only
\* in a step of the main thread that consumes the finished future of one
\* file; that step appends the file's relative path to the list and at most
\* one complete line, that path and a newline, to the end of the log, so
\* every line written before is still there; the steps of the worker tasks
\* leave both alone.
C28_AppendsAreSerial ==
    [][pc = "loop" =>
         \/ ledgerFile' = ledgerFile /\ processed_files' = processed_files
         \/ \E f \in files_to_process :
               /\ fut[f] = "done" /\ fut'[f] = "consumed"
               /\ \A g \in AllNames \ {f} : fut'[g] = fut[g]
               /\ processed_files' = Append(processed_files, RelPath(f))
               /\ ledgerFile' \in {ledgerFile, ledgerFile \o RelPath(f) \o <<"\n">>}]_vars

\* a second line has been appended in this run while a worker task is running
C28_Witness ==
    /\ pc = "loop"
    /\ \E f \in files_to_process : fut[f] = "running"
    /\ \E f \in files_to_process :
          /\ fut[f] = "consumed"
          /\ ledger_at_start # <<>>
          /\ ledgerFile = ledger_at_start \o RelPath(f) \o <<"\n">>

\* ------------------------------------------------------------------------
\* The log at the end of a run
\* ------------------------------------------------------------------------
\* C29: when the loop of a run is over, every file of the run whose parse,
\* clean, validation, categorisation and quarantine write succeeded has a
\* line in the log, and the in-memory list is the list the log holds; also
\* when the relative path could not be computed or the log line could not be
\* written.
C29_PersistedLedgerComplete ==
    pc = "report" =>
        /\ \A f \in files_to_process :
              step_log[f] \in {"ok", "relpath_failed", "ledger_write_failed"} =>
                  Count(RelPath(f), SplitLines(ledgerFile)) > 0
        /\ processed_files = _load_processed_files(ledgerFile)

\* ------------------------------------------------------------------------
\* Null text fields through the cleaner, under several rulesets
\* ------------------------------------------------------------------------
InitCN ==
    LET \* a row that passes every check, and the same row with one text field
        \* left empty in the file
        Good == Row(Str(<<"5">>), Str(T_EUR), Str(IBAN_FR), Str(IBAN_XX), Str(BIC_8), Str(T_LOYER))
        NullRowSamples ==
            {Good} \cup {[Good EXCEPT ![c] = Null] :
                            c \in {"Devise", "IBAN_Emetteur", "IBAN_Beneficiaire", "BIC_SWIFT"}}
        NullFrameSamples ==
            {[i \in 1..Len(rows) |-> [origin |-> <<"t", i>>, cells |-> rows[i]]] :
                rows \in UNION {[1..n -> NullRowSamples] : n \in 0..MaxRows}}
        \* the processor's rules, and rules that allow every currency
        RuleSamples ==
            {ProcessorRules,
             [k \in {"max_transaction_amount", "allowed_currencies"} |->
                 IF k = "max_transaction_amount" THEN 1000 ELSE <<>>]}
    IN  /\ PipelineParked
        /\ fn = "clean_then_validate_rules"
        /\ arg \in {[raw |-> t, rules |-> r] : t \in NullFrameSamples, r \in RuleSamples}
        /\ ret = <<>>
        /\ called = FALSE

Call_clean_then_validate_rules ==
    /\ fn = "clean_then_validate_rules" /\ ~called
    /\ LET cleaned == _clean_data(arg.raw)
           out == _validate_data(cleaned, arg.rules)
       IN  ret' = [cleaned |-> cleaned, valid |-> out.valid, invalid |-> out.invalid]
    /\ called' = TRUE
    /\ UNCHANGED <<fn, arg>>
    /\ UNCHANGED pipeline_vars

SpecCN == InitCN /\ [][Call_clean_then_validate_rules]_vars

\* C30: whatever the ruleset, no row of the valid output comes from a parsed
\* row whose currency, issuer IBAN, beneficiary IBAN or BIC was null.
C30_NullFieldNeverValid ==
    (fn = "clean_then_validate_rules" /\ called) =>
        \A k \in 1..Len(ret.valid) :
            \A c \in {"Devise", "IBAN_Emetteur", "IBAN_Beneficiaire", "BIC_SWIFT"} :
                arg.raw[ret.valid[k].origin[2]].cells[c] # Null

====
